---- MODULE Spec2Model ----
(***************************************************************************)
(* A model of SgEExt (src/sgeext.py), the gemoji emoji extractor:          *)
(* the identifier normalizer of handle_emoji_extraction, the two asset     *)
(* acquirers (download_file, handle_github_emojis), the catalog retriever  *)
(* (retrieve_emoji_db) and the loop of perform_emojis_extraction.          *)
(*                                                                         *)
(* Text is modelled as sequences of one-character strings (identifiers)    *)
(* and paths / URLs as sequences of segments, so that the regular          *)
(* expressions, os.path.join and url.split('/') are computed, not assumed. *)
(***************************************************************************)
EXTENDS Integers, Sequences, FiniteSets, TLC

(***************************************************************************)
(* Bounds of the model.                                                    *)
(***************************************************************************)
MaxDb == 2          \* longest catalog
MaxSubset == 2      \* longest list given to --list
MaxGlyph == 3       \* longest glyph (in code points) fed to the normalizer

VARIABLES
    args,               \* the arguments of perform_emojis_extraction
    world,              \* the file system, the servers and the gem command
    pc,                 \* position in perform_emojis_extraction
    run,                \* "first" or "second" invocation of the program
    gemoji_local_path,  \* result of localize_emoji_install (line 213)
    emojis_db,          \* result of retrieve_emoji_db (line 214)
    idx,                \* index of the next catalog entry of the for loop
    subset,             \* the list `subset`, mutated in place (line 242)
    first_alias,        \* the local `first_alias`, Unbound until line 228
    i,                  \* the success counter `i`
    error,              \* the exception that ended the run, or "None"
    log,                \* history: one record per loop iteration of this run:
                        \*   entry, matched (match_names), branch taken, name
                        \*   (first_alias at the call), ret, gets (transfers),
                        \*   via (acquirer), file (target), subset before and
                        \*   after, count (value of i after the iteration)
    transfers,          \* history: HTTP GETs and file copies of this run
    prev,               \* history: summary of the first run, once it ended
    glyph,              \* normalizer: the glyph under test
    ident               \* normalizer: the raw identifier, then each result

vars == <<args, world, pc, run, gemoji_local_path, emojis_db, idx, subset,
          first_alias, i, error, log, transfers, prev, glyph, ident>>

engineVars == <<args, world, pc, run, gemoji_local_path, emojis_db, idx,
                subset, first_alias, i, error, log, transfers, prev>>
normVars == <<glyph, ident>>

(***************************************************************************)
(* Generic helpers on sequences.                                           *)
(***************************************************************************)
Range(s) == {s[k] : k \in 1..Len(s)}

SeqsUpTo(S, n) == UNION {[1..k -> S] : k \in 0..n}

Last(s) == s[Len(s)]

Front(s) == SubSeq(s, 1, Len(s) - 1)

StartsWith(s, p) == Len(s) >= Len(p) /\ SubSeq(s, 1, Len(p)) = p

EndsWith(s, p) == Len(s) >= Len(p) /\ SubSeq(s, Len(s) - Len(p) + 1, Len(s)) = p

RECURSIVE Str(_)
\* ''.join(chars) : a sequence of one-character strings as one string
Str(s) == IF s = <<>> THEN "" ELSE s[1] \o Str(Tail(s))

(***************************************************************************)
(* Identifier normalizer: handle_emoji_extraction, lines 150-161.          *)
(***************************************************************************)
HexDigits == <<"0", "1", "2", "3", "4", "5", "6", "7",
               "8", "9", "a", "b", "c", "d", "e", "f">>

RECURSIVE Hex(_)
\* format(ord(char), 'x')
Hex(n) == IF n < 16 THEN <<HexDigits[n + 1]>>
          ELSE Hex(n \div 16) \o <<HexDigits[(n % 16) + 1]>>

RECURSIVE RawIdentifier(_)
\* ''.join(format(ord(char), 'x') for char in emoji['emoji'])       line 151
RawIdentifier(g) == IF g = <<>> THEN <<>> ELSE Hex(g[1]) \o RawIdentifier(Tail(g))

\* the matches of the character class [ef] after "fe0"
VariationSelectors == {<<"f", "e", "0", "e">>, <<"f", "e", "0", "f">>}

\* every trailing selector is stripped, not only the last one
StripSelector_All(u) ==
    LET RECURSIVE strip(_)
        strip(v) == IF \E vs \in VariationSelectors : EndsWith(v, vs)
                    THEN strip(SubSeq(v, 1, Len(v) - 4)) ELSE v
    IN  strip(u)

\* re.sub(r'fe0[ef]$', '', unicode, re.IGNORECASE)                  line 155
\* (the pattern is anchored at the end: at most one match is replaced)
StripSelector(u) ==
    IF \E vs \in VariationSelectors : EndsWith(u, vs)
    THEN SubSeq(u, 1, Len(u) - 4)
    ELSE u

ShrugPrefix == <<"1", "f", "9", "3", "7">>
Joiner == <<"2", "0", "0", "d">>

\* the joiner is dropped and no hyphen is put in its place
ShrugRule_DropJoiner(u) ==
    IF StartsWith(u, ShrugPrefix \o Joiner)
    THEN ShrugPrefix \o SubSeq(u, 10, Len(u))
    ELSE u

\* re.sub(r'^(1f937)(?:200d)(.*)$', r'\1-\2', unicode, ...)         line 158
ShrugRule(u) ==
    IF StartsWith(u, ShrugPrefix \o Joiner)
    THEN ShrugPrefix \o <<"-">> \o SubSeq(u, 10, Len(u))
    ELSE u

FlagPrefix == <<"1", "f", "1">>

\* no hyphen is put between the two indicators
FlagRule_NoHyphen(u) == u

\* re.sub(r'^(1f1)(..)(1f1)(..)$', r'\1\2-\3\4', unicode, ...)      line 161
FlagRule(u) ==
    IF Len(u) = 10 /\ SubSeq(u, 1, 3) = FlagPrefix /\ SubSeq(u, 6, 8) = FlagPrefix
    THEN SubSeq(u, 1, 5) \o <<"-">> \o SubSeq(u, 6, 10)
    ELSE u

\* the three substitutions, in the order of lines 155, 158, 161
Normalize(u) == FlagRule(ShrugRule(StripSelector(u)))

(***************************************************************************)
(* The catalog: entries of db/emoji.json.  An entry is a record with the   *)
(* field `aliases` and, for a true emoji only, the field `emoji` (the      *)
(* glyph, as its code points).                                             *)
(***************************************************************************)
\* "bowing_man", also known as "bow": U+1F647 U+200D U+2642 U+FE0F
BowingMan == [aliases |-> <<"bowing_man", "bow">>,
              emoji |-> <<128583, 8205, 9794, 65039>>]

\* "octocat", one of GitHub's "fake" emojis (a regular image, no glyph)
Octocat == [aliases |-> <<"octocat">>]

Entries == {BowingMan, Octocat}

\* names a user may give to --list
Names == {"bow", "bowing_man", "octocat"}

Catalogs == SeqsUpTo(Entries, MaxDb)

HasEmoji(e) == "emoji" \in DOMAIN e       \* 'emoji' in emoji      line 230

\* what a catalog file may hold: valid JSON (a catalog) or not
CorruptDoc == [valid |-> FALSE, db |-> <<>>]
DbDocs == {CorruptDoc} \cup {[valid |-> TRUE, db |-> c] : c \in Catalogs}

(***************************************************************************)
(* The world outside the program.  Paths and URLs are sequences of         *)
(* segments.  What the program has not observed yet is left undetermined   *)
(* (absent from the domain of `files` or `remote`) and is fixed by the     *)
(* first observation, so it answers the same way when asked again.         *)
(*   dirs    the directories that exist                                    *)
(*   files   path -> content, NoFile once known not to exist               *)
(*   remote  URL -> the answer of the server: status and body              *)
(*   gem     whether `gem which gemoji` finds an installation              *)
(***************************************************************************)
None == ""             \* None, for a name
NoPath == <<>>         \* None, for a path
Unbound == "<unbound>"

Cwd == <<".">>                                  \* os.getcwd()
GemRoot == <<"gems", "gemoji-4.0">>             \* group(1) of line 102

\* GITHUB_ASSETS_BASE_URL up to its placeholder                    line 23
AssetsBase == <<"https:", "", "github.githubassets.com", "images", "icons", "emoji">>
\* GITHUB_ASSETS_BASE_URL.format(name): name given by its segments
AssetUrl(name) == AssetsBase \o Front(name) \o <<Last(name) \o ".png">>
\* EMOJI_DB_URL                                                    line 25
EmojiDbUrl == <<"https:", "", "github.com", "github", "gemoji", "raw", "master",
                "db", "emoji.json">>

NoFile == [kind |-> "absent", from |-> <<>>, doc |-> CorruptDoc]
OldFile(doc) == [kind |-> "old", from |-> <<>>, doc |-> doc]
Fetched(url, doc) == [kind |-> "fetched", from |-> url, doc |-> doc]

\* The undetermined part of the world an operation may have to observe is
\* given to it as a record `ch`: whether the target file exists (exists)
\* and what it holds (old), the status the server answers (status) and the
\* document it serves (doc), whether the source of a copy exists (src).

\* a file named emoji.json left in the working directory before the run:
\* not a catalog, or an older catalog
StaleDocs == {CorruptDoc, [valid |-> TRUE, db |-> <<Octocat>>]}
\* observations made by an acquirer: an image is not a catalog document
ImageChoices == [exists : BOOLEAN, status : {200, 404}, src : BOOLEAN,
                 doc : {CorruptDoc}, old : {CorruptDoc}]

Known(w, p) == p \in DOMAIN w.files
\* the world once the existence of file p has been observed
Observe(w, p, e, doc) ==
    IF Known(w, p) THEN w
    ELSE [w EXCEPT !.files =
            (p :> (IF Front(p) \in w.dirs /\ e THEN OldFile(doc) ELSE NoFile)) @@ @]
\* os.path.exists(p), for a file whose existence has been observed
Exists(w, p) == Known(w, p) /\ w.files[p].kind # "absent"

\* the world once the server has been asked for url
Ask(w, url, status, doc) ==
    IF url \in DOMAIN w.remote THEN w
    ELSE [w EXCEPT !.remote = (url :> [status |-> status, body |-> doc]) @@ @]

\* os.makedirs(path, mode=0o755): the directory and its missing parents
MakeDirs(w, path) ==
    [w EXCEPT !.dirs = @ \cup {SubSeq(path, 1, k) : k \in 1..Len(path)}]

(***************************************************************************)
(* open_and_load_emojis_db, lines 28-38.                                   *)
(***************************************************************************)
\* the exceptions caught at line 34 yield the empty catalog
LoadFailed(w, file_path) == ~Exists(w, file_path) \/ ~w.files[file_path].doc.valid

open_and_load_emojis_db(file_path, w0, ch) ==
    LET w == Observe(w0, file_path, ch.exists, ch.doc)
    IN  [db |-> IF LoadFailed(w, file_path) THEN <<>> ELSE w.files[file_path].doc.db,
         w |-> w]

(***************************************************************************)
(* download_file, lines 41-82.  Returns the value returned (`ret`), the    *)
(* world afterwards (`w`), the transfers made (`gets`), the exception      *)
(* raised if any, and for the history the acquirer at work (`via`) and the *)
(* target path it computed (`file`).                                       *)
(***************************************************************************)
\* the target is transferred again even when it exists
SkipExisting_Never(force, exists) == FALSE

\* not force and os.path.exists(file_name)                         line 59
SkipExisting(force, exists) == ~force /\ exists

\* any answer of the server is taken for the content
Refused_Never(status) == FALSE

\* get_request.status_code != 200                                 line 70
Refused(status) == status # 200

\* the remote name is used whatever name was asked for
FileName_RemoteName(url, path, real_name) == path \o <<Last(url)>>

\* file name under which the entity is saved                  lines 54-57
FileName(url, path, real_name) ==
    IF real_name # None THEN path \o <<real_name \o ".png">>
    ELSE path \o <<Last(url)>>

download_file(url, path0, force, real_name, w0, ch) ==
    LET path == IF path0 = NoPath THEN Cwd ELSE path0              \* 48-49
        w1 == IF path0 # NoPath /\ path \notin w0.dirs             \* 50-51
              THEN MakeDirs(w0, path) ELSE w0
        file_name == FileName(url, path, real_name)
        w2 == Observe(w1, file_name, ch.exists, ch.old)
    IN  IF SkipExisting(force, Exists(w2, file_name))
        THEN [ret |-> TRUE, w |-> w2, gets |-> <<>>, raised |-> "None",    \* 65
              via |-> "download_file", file |-> file_name]
        ELSE LET w3 == Ask(w2, url, ch.status, ch.doc)
                 answer == w3.remote[url]
                 get == [op |-> "GET", src |-> url, dst |-> file_name,
                         ok |-> answer.status = 200]
             IN  IF Refused(answer.status)                          \* 70-73
                 THEN [ret |-> FALSE, w |-> w3, gets |-> <<get>>, raised |-> "None",
                       via |-> "download_file", file |-> file_name]
                 ELSE [ret |-> TRUE,                                \* 75-82
                       w |-> [w3 EXCEPT !.files =
                                (file_name :> Fetched(url, answer.body)) @@ @],
                       gets |-> <<get>>, raised |-> "None",
                       via |-> "download_file", file |-> file_name]

(***************************************************************************)
(* retrieve_emoji_db, lines 117-138.                                       *)
(***************************************************************************)
LocalDbFile == GemRoot \o <<"db", "emoji.json">>      \* lines 124-126, as found
TempDbFile == Cwd \o <<"emoji.json">>                 \* line 130

\* The observations open to retrieve_emoji_db in world w; a component the
\* call does not consult is held fixed, so that each outcome comes once.
\* With a local installation: its catalog file (whether it exists, what
\* it holds).
LocalDbChoices(w) ==
    {ch \in [exists : BOOLEAN, status : {200}, src : {TRUE},
             doc : DbDocs, old : {CorruptDoc}] :
        /\ Known(w, LocalDbFile) => ~ch.exists
        /\ ~ch.exists => ch.doc = CorruptDoc}
\* Without one: a stale emoji.json in the working directory (whether it
\* exists, what it holds) and, when the download is made, the answer of
\* the server (its status, the document served).
RemoteDbChoices(w) ==
    {ch \in [exists : BOOLEAN, status : {200, 404}, src : {TRUE},
             doc : DbDocs, old : StaleDocs] :
        LET asked == IF Known(w, TempDbFile) THEN ~Exists(w, TempDbFile)
                     ELSE ~ch.exists
        IN  /\ Known(w, TempDbFile) => ~ch.exists
            /\ ~ch.exists => ch.old = CorruptDoc
            /\ ~(asked /\ EmojiDbUrl \notin DOMAIN w.remote) =>
                    ch.status = 200 /\ ch.doc = CorruptDoc
            /\ ch.status = 404 => ch.doc = CorruptDoc}

retrieve_emoji_db(local_path, w0, ch) ==
    IF local_path # NoPath
    THEN LET r == open_and_load_emojis_db(local_path \o <<"db", "emoji.json">>, w0, ch)
         IN  [db |-> r.db, w |-> r.w, gets |-> <<>>, raised |-> "None"]
    ELSE LET d == download_file(EmojiDbUrl, NoPath, FALSE, None, w0, ch)  \* 129
             r == open_and_load_emojis_db(TempDbFile, d.w, ch)          \* 131
         IN  IF ~Exists(r.w, TempDbFile)
             THEN \* os.remove of a missing file                   line 132
                  [db |-> r.db, w |-> r.w, gets |-> d.gets,
                   raised |-> "FileNotFoundError"]
             ELSE [db |-> r.db,
                   w |-> [r.w EXCEPT !.files = (TempDbFile :> NoFile) @@ @],
                   gets |-> d.gets, raised |-> "None"]

(***************************************************************************)
(* handle_emoji_extraction, lines 141-170.                                 *)
(***************************************************************************)
\* the identifier computed at lines 151-161, as a string
Unicode(emoji) == Str(Normalize(RawIdentifier(emoji.emoji)))

handle_emoji_extraction(emoji, alias, path, force, real_names, w, ch) ==
    download_file(AssetUrl(<<"unicode", Unicode(emoji)>>),           \* 166
                  path \o <<"unicode">>,                             \* 167
                  force,
                  IF real_names THEN alias ELSE None,                \* 169
                  w, ch)

(***************************************************************************)
(* handle_github_emojis, lines 173-201.                                    *)
(***************************************************************************)
\* shutil.copyfile(src, dst): opens src, then creates dst        196-199
copyfile(src, dst, w0, ch) ==
    LET w == Observe(w0, src, ch.src, CorruptDoc)
        copy == [op |-> "COPY", src |-> src, dst |-> dst,
                 ok |-> Exists(w, src) /\ Front(dst) \in w.dirs]
    IN  IF ~copy.ok
        THEN [w |-> w, gets |-> <<copy>>, raised |-> "FileNotFoundError"]
        ELSE [w |-> [w EXCEPT !.files = (dst :> Fetched(src, CorruptDoc)) @@ @],
              gets |-> <<copy>>, raised |-> "None"]

handle_github_emojis(alias, path, force, local_path, w0, ch) ==
    IF local_path = NoPath
    THEN download_file(AssetUrl(<<alias>>), path, force, None, w0, ch)  \* 179
    ELSE LET image_name == alias \o ".png"                              \* 186
             image_local_path == path \o <<image_name>>                 \* 187
             w == Observe(w0, image_local_path, ch.exists, CorruptDoc)
         IN  IF SkipExisting(force, Exists(w, image_local_path))        \* 188
             THEN [ret |-> TRUE, w |-> w, gets |-> <<>>, raised |-> "None",
                   via |-> "copyfile", file |-> image_local_path]
             ELSE LET c == copyfile(local_path \o <<"images", image_name>>,
                                    image_local_path, w, ch)
                  IN  [ret |-> TRUE, w |-> c.w, gets |-> c.gets,        \* 201
                       raised |-> c.raised,
                       via |-> "copyfile", file |-> image_local_path]

(***************************************************************************)
(* perform_emojis_extraction, lines 204-254: one iteration of the loop.    *)
(***************************************************************************)
\* set(emoji['aliases']) & set(subset)                            line 223
MatchNames(emoji, sub) == Range(emoji.aliases) \cap Range(sub)

RECURSIVE Remove(_, _)
\* list.remove(x): the list without the first occurrence of x
Remove(l, x) ==
    IF l = <<>> THEN <<>>
    ELSE IF l[1] = x THEN Tail(l) ELSE <<l[1]>> \o Remove(Tail(l), x)

\* removes one of the matched names only
RemoveAll_OnlyOne(l, M) ==
    IF M = {} THEN l ELSE Remove(l, CHOOSE y \in M : TRUE)

RECURSIVE RemoveAll(_, _)
\* for match_name in match_names: subset.remove(match_name)   lines 241-242
RemoveAll(l, M) ==
    IF M = {} THEN l
    ELSE LET x == CHOOSE y \in M : TRUE IN RemoveAll(Remove(l, x), M \ {x})

\* which branch of lines 230-237 an entry takes
Branch(emoji, only_real_emojis) ==
    IF HasEmoji(emoji) THEN "emoji"
    ELSE IF ~only_real_emojis THEN "github"
    ELSE "none"

\* the call made in that branch, with `first_alias` as bound before it
Dispatch(branch, emoji, alias, a, local_path, w, ch) ==
    IF branch = "none"
    THEN [ret |-> FALSE, w |-> w, gets |-> <<>>, raised |-> "None",
          via |-> "none", file |-> NoPath]
    ELSE IF alias = Unbound
    THEN \* the argument `first_alias` is read before any assignment
         [ret |-> FALSE, w |-> w, gets |-> <<>>, raised |-> "UnboundLocalError",
          via |-> "none", file |-> NoPath]
    ELSE IF branch = "emoji"
    THEN handle_emoji_extraction(emoji, alias, a.path, a.force, a.real_names, w, ch)
    ELSE handle_github_emojis(alias, a.path, a.force, local_path, w, ch)

\* every entry that reaches an acquirer is counted
Increment_Always(count, ret) == count + 1

\* if <acquirer>(...): i += 1                       lines 231-232, 236-237
Increment(count, ret) == IF ret THEN count + 1 ELSE count

\* the loop goes on after the subset is exhausted
BreakLoop_Never(filtering, remaining) == FALSE

\* if not subset: break                                       lines 243-245
BreakLoop(filtering, remaining) == filtering /\ remaining = <<>>

(***************************************************************************)
(* The program as a state machine.                                         *)
(***************************************************************************)
\* default of --directory: os.path.join(os.getcwd(), 'emoji')     line 265
ExtractDir == Cwd \o <<"emoji">>
UnicodeDir == ExtractDir \o <<"unicode">>

\* the command line: main, lines 262-314
Arguments == [path : {ExtractDir}, force : BOOLEAN,
              list : SeqsUpTo(Names, MaxSubset),
              real_names : BOOLEAN, only_real_emojis : BOOLEAN]

\* the extraction directory may exist or not before the first run
InitialDirs == {{Cwd}, {Cwd, ExtractDir}, {Cwd, ExtractDir, UnicodeDir}}

NoPrev == [pc |-> "none", i |-> 0, error |-> "None", db |-> <<>>,
           log |-> <<>>, transfers |-> <<>>, files |-> <<>>]

EngineIdle == /\ glyph = <<>>
              /\ ident = <<>>

Init ==
    /\ args \in Arguments
    /\ world \in {[dirs |-> d, files |-> <<>>, remote |-> <<>>, gem |-> "unknown"] :
                    d \in InitialDirs}
    /\ pc = "start"
    /\ run = "first"
    /\ gemoji_local_path = NoPath
    /\ emojis_db = <<>>
    /\ idx = 1
    /\ subset = args.list
    /\ first_alias = Unbound
    /\ i = 0
    /\ error = "None"
    /\ log = <<>>
    /\ transfers = <<>>
    /\ prev = NoPrev
    /\ EngineIdle

\* localize_emoji_install, lines 85-114, by the outcome of `gem which gemoji`
Localized(outcome, path) ==
    /\ pc = "start"
    /\ world.gem \in {"unknown", outcome}
    /\ world' = [world EXCEPT
                   !.gem = outcome,
                   !.dirs = IF path = NoPath THEN @
                            ELSE @ \cup {<<path[1]>>, path, path \o <<"db">>,
                                         path \o <<"images">>}]
    /\ gemoji_local_path' = path
    /\ pc' = "localized"
    /\ UNCHANGED <<args, run, emojis_db, idx, subset, first_alias, i, error, log,
                   transfers, prev, normVars>>

\* the command is missing or fails                             lines 94-97
LocalizeFails == Localized("absent", NoPath)
\* its output is not of the expected shape                   lines 106-111
LocalizeUnmatched == Localized("absent", NoPath)
\* the installation folder is found                          lines 113-114
LocalizeFound == Localized("found", GemRoot)

\* emojis_db = retrieve_emoji_db(gemoji_local_path)               line 214
Retrieved(ch) ==
    LET r == retrieve_emoji_db(gemoji_local_path, world, ch)
    IN  /\ world' = r.w
        /\ transfers' = transfers \o r.gets
        /\ emojis_db' = IF r.raised = "None" THEN r.db ELSE emojis_db
        /\ error' = r.raised
        /\ pc' = IF r.raised = "None" THEN "iterating" ELSE "crashed"
        /\ UNCHANGED <<args, run, gemoji_local_path, idx, subset, first_alias, i,
                       log, prev, normVars>>

RetrieveLocal ==
    /\ pc = "localized"
    /\ gemoji_local_path # NoPath
    /\ \E ch \in LocalDbChoices(world) : Retrieved(ch)

RetrieveRemote ==
    /\ pc = "localized"
    /\ gemoji_local_path = NoPath
    /\ \E ch \in RemoteDbChoices(world) : Retrieved(ch)

\* one iteration of `for emoji in emojis_db`, lines 218-245
Iteration(ch) ==
    LET emoji == emojis_db[idx]
        filtering == subset # <<>>                                  \* 219
        match_names == IF filtering THEN MatchNames(emoji, subset) ELSE {}
    IN  IF filtering /\ match_names = {}
        THEN \* continue                                      lines 224-225
             /\ idx' = idx + 1
             /\ log' = Append(log,
                    [entry |-> idx, matched |-> {}, branch |-> "continue",
                     name |-> first_alias, ret |-> "none", gets |-> <<>>,
                     via |-> "none", file |-> NoPath,
                     before |-> subset, after |-> subset, count |-> i])
             /\ UNCHANGED <<world, pc, subset, first_alias, i, error, transfers>>
        ELSE LET alias == IF filtering THEN emoji.aliases[1] ELSE first_alias  \* 228
                 branch == Branch(emoji, args.only_real_emojis)
                 d == Dispatch(branch, emoji, alias, args, gemoji_local_path, world, ch)
                 remaining == IF filtering THEN RemoveAll(subset, match_names)
                              ELSE subset
             IN  /\ first_alias' = alias
                 /\ world' = d.w
                 /\ transfers' = transfers \o d.gets
                 /\ log' = Append(log,
                        [entry |-> idx, matched |-> match_names, branch |-> branch,
                         name |-> alias,
                         ret |-> IF d.raised # "None" THEN "raised"
                                 ELSE IF branch = "none" THEN "none"
                                 ELSE IF d.ret THEN "True" ELSE "False",
                         gets |-> d.gets, via |-> d.via, file |-> d.file,
                         before |-> subset,
                         after |-> IF d.raised # "None" THEN subset ELSE remaining,
                         count |-> IF d.raised = "None" THEN Increment(i, d.ret)
                                   ELSE i])
                 /\ IF d.raised # "None"
                    THEN /\ pc' = "crashed"
                         /\ error' = d.raised
                         /\ UNCHANGED <<idx, subset, i>>
                    ELSE /\ i' = Increment(i, d.ret)                 \* 232, 237
                         /\ subset' = remaining                      \* 241-242
                         /\ idx' = idx + 1
                         /\ pc' = IF BreakLoop(filtering, remaining)
                                  THEN "after_loop" ELSE "iterating"
                         /\ UNCHANGED error

Iterate ==
    /\ pc = "iterating"
    /\ idx <= Len(emojis_db)
    /\ \E ch \in ImageChoices : Iteration(ch)
    /\ UNCHANGED <<args, run, gemoji_local_path, emojis_db, prev, normVars>>

\* after the loop: the warning and the count, lines 247-254
Report ==
    /\ \/ pc = "after_loop"
       \/ pc = "iterating" /\ idx > Len(emojis_db)
    /\ pc' = "done"
    /\ UNCHANGED <<args, world, run, gemoji_local_path, emojis_db, idx, subset,
                   first_alias, i, error, log, transfers, prev, normVars>>

\* the program is started again with the same command line
Rerun ==
    /\ pc \in {"done", "crashed"}
    /\ run = "first"
    /\ run' = "second"
    /\ prev' = [pc |-> pc, i |-> i, error |-> error, db |-> emojis_db,
                log |-> log, transfers |-> transfers, files |-> world.files]
    /\ pc' = "start"
    /\ gemoji_local_path' = NoPath
    /\ emojis_db' = <<>>
    /\ idx' = 1
    /\ subset' = args.list
    /\ first_alias' = Unbound
    /\ i' = 0
    /\ error' = "None"
    /\ log' = <<>>
    /\ transfers' = <<>>
    /\ UNCHANGED <<args, world, normVars>>

\* one run of the program
Next ==
    \/ LocalizeFails
    \/ LocalizeUnmatched
    \/ LocalizeFound
    \/ RetrieveLocal
    \/ RetrieveRemote
    \/ Iterate
    \/ Report

Spec == Init /\ [][Next]_vars

\* two runs in a row, force-mode off; fake images are not filtered out, so
\* that both acquirers run in both runs
InitTwice == Init /\ ~args.force /\ ~args.only_real_emojis

NextTwice == Next \/ Rerun

SpecTwice == InitTwice /\ [][NextTwice]_vars

(***************************************************************************)
(* The normalizer on its own: a glyph of a few code points is encoded      *)
(* (line 151) and the substitutions of lines 155-161 are applied, then     *)
(* applied again to their own result.                                      *)
(***************************************************************************)
\* U+1F937 (shrug), U+200D (joiner), U+2642, U+FE0E, U+FE0F (selectors),
\* U+1F1E6, U+1F1F3 (regional indicators), U+270C
CodePoints == {129335, 8205, 9794, 65038, 65039, 127462, 127475, 9996}

NormInit ==
    /\ glyph \in SeqsUpTo(CodePoints, MaxGlyph) \ {<<>>}
    /\ ident = <<>>
    /\ args = [path |-> ExtractDir, force |-> FALSE, list |-> <<>>,
               real_names |-> FALSE, only_real_emojis |-> FALSE]
    /\ world = [dirs |-> {Cwd}, files |-> <<>>, remote |-> <<>>, gem |-> "unknown"]
    /\ pc = "normalizer"
    /\ run = "first"
    /\ gemoji_local_path = NoPath
    /\ emojis_db = <<>>
    /\ idx = 1
    /\ subset = <<>>
    /\ first_alias = Unbound
    /\ i = 0
    /\ error = "None"
    /\ log = <<>>
    /\ transfers = <<>>
    /\ prev = NoPrev

\* line 151
Encode ==
    /\ pc = "normalizer"
    /\ ident = <<>>
    /\ ident' = <<RawIdentifier(glyph)>>
    /\ UNCHANGED <<glyph, engineVars>>

\* lines 155-161, on the raw identifier and once more on the result
Substitute ==
    /\ pc = "normalizer"
    /\ Len(ident) \in {1, 2}
    /\ ident' = Append(ident, Normalize(Last(ident)))
    /\ UNCHANGED <<glyph, engineVars>>

NormNext == Encode \/ Substitute

NormSpec == NormInit /\ [][NormNext]_vars

(***************************************************************************)
(* The normalizer line by line: the identifier after line 151, then after  *)
(* each of the substitutions of lines 155, 158 and 161.                    *)
(***************************************************************************)
RuleInit ==
    /\ glyph \in SeqsUpTo(CodePoints, MaxGlyph) \ {<<>>}
    /\ ident = <<>>
    /\ args = [path |-> ExtractDir, force |-> FALSE, list |-> <<>>,
               real_names |-> FALSE, only_real_emojis |-> FALSE]
    /\ world = [dirs |-> {Cwd}, files |-> <<>>, remote |-> <<>>, gem |-> "unknown"]
    /\ pc = "rules"
    /\ run = "first"
    /\ gemoji_local_path = NoPath
    /\ emojis_db = <<>>
    /\ idx = 1
    /\ subset = <<>>
    /\ first_alias = Unbound
    /\ i = 0
    /\ error = "None"
    /\ log = <<>>
    /\ transfers = <<>>
    /\ prev = NoPrev

\* line 151
FormatHex ==
    /\ pc = "rules"
    /\ ident = <<>>
    /\ ident' = <<RawIdentifier(glyph)>>
    /\ UNCHANGED <<glyph, engineVars>>

\* line 155
SubSelector ==
    /\ pc = "rules"
    /\ Len(ident) = 1
    /\ ident' = Append(ident, StripSelector(ident[1]))
    /\ UNCHANGED <<glyph, engineVars>>

\* line 158
SubShrug ==
    /\ pc = "rules"
    /\ Len(ident) = 2
    /\ ident' = Append(ident, ShrugRule(ident[2]))
    /\ UNCHANGED <<glyph, engineVars>>

\* line 161
SubFlag ==
    /\ pc = "rules"
    /\ Len(ident) = 3
    /\ ident' = Append(ident, FlagRule(ident[3]))
    /\ UNCHANGED <<glyph, engineVars>>

RuleNext == FormatHex \/ SubSelector \/ SubShrug \/ SubFlag

RuleSpec == RuleInit /\ [][RuleNext]_vars

(***************************************************************************)
(* Properties of perform_emojis_extraction.                                *)
(***************************************************************************)
Count(l, a) == Cardinality({k \in 1..Len(l) : l[k] = a})

\* the catalog aliases: every name found in some alias list of the catalog
CatalogAliases(db) == UNION {Range(db[k].aliases) : k \in 1..Len(db)}

\* the run has loaded its catalog and entered (or left) the loop
Looping == pc \in {"iterating", "after_loop", "done", "crashed"} /\ (pc = "crashed" => log # <<>>)

\* C1: with no subset and a non-empty catalog, the run examines every
\* entry once, in catalog order, calls an acquirer under the entry's first
\* alias for each true emoji (and each fake image unless true-emoji-only
\* mode is on), and reaches DONE.
C1_WholeCatalogExtracted ==
    (args.list = <<>> /\ Looping /\ emojis_db # <<>>) =>
        /\ pc # "crashed"
        /\ \A k \in 1..Len(log) :
              /\ log[k].entry = k
              /\ log[k].branch = Branch(emojis_db[k], args.only_real_emojis)
              /\ log[k].branch # "none" =>
                    /\ log[k].name = emojis_db[k].aliases[1]
                    /\ log[k].via # "none"
        /\ pc = "done" => Len(log) = Len(emojis_db)

\* the list `after` is the list `before` less one occurrence of each name
\* of M, and nothing else
LessExactly(after, before, M) ==
    \A a \in Names :
        Count(after, a) = Count(before, a) - (IF a \in M THEN 1 ELSE 0)

C3_StopsWhenSubsetEmpty ==
    \A k \in 1..Len(log) :
        (log[k].before # <<>> /\ log[k].after = <<>>) =>
            /\ k = Len(log)
            /\ pc \in {"after_loop", "done"}
            /\ idx = log[k].entry + 1

\* C3 witness: the run is done, the subset was emptied by the first entry
\* and the second entry of the catalog was never examined
C3_Witness ==
    /\ pc = "done"
    /\ args.list # <<>>
    /\ subset = <<>>
    /\ Len(emojis_db) = 2
    /\ Len(log) = 1
    /\ log[1].ret = "True"

\* C4: at DONE the names reported as not found are exactly the requested
\* names that no entry of the catalog has among its aliases.
C4_NotFoundAreUnmatched ==
    pc = "done" =>
        Range(subset) = Range(args.list) \ CatalogAliases(emojis_db)

(***************************************************************************)
(* Two runs in a row (SpecTwice).                                          *)
(***************************************************************************)
\* the transfers of the current run other than the catalog download
AssetTransfers == SelectSeq(transfers, LAMBDA t : t.src # EmojiDbUrl)

\* path p held a file when the first run ended
LeftByFirstRun(p) == p \in DOMAIN prev.files /\ prev.files[p].kind # "absent"

\* C5, as claimed: the second of two runs with force-mode off makes no
\* transfer at all and reports the success count of the first.
C5_SecondRunTransfersNothing ==
    (run = "second" /\ pc = "done" /\ prev.pc = "done") =>
        transfers = <<>> /\ i = prev.i

\* C5, amended: the second run transfers nothing onto a target the first
\* run left on disk; what it transfers is the catalog (downloaded again
\* when there is no local installation) and the images still missing.
\* When the first run reached DONE with no failed acquisition and both
\* runs read the same catalog, the second makes no image transfer and
\* reports the same success count.
C5_SecondRunSkipsWhatExists ==
    run = "second" =>
        /\ \A k \in 1..Len(transfers) :
              \/ /\ transfers[k].src = EmojiDbUrl
                 /\ gemoji_local_path = NoPath
                 /\ k = 1
              \/ ~LeftByFirstRun(transfers[k].dst)
        /\ ( /\ pc = "done"
             /\ prev.pc = "done"
             /\ prev.db = emojis_db
             /\ \A k \in 1..Len(prev.log) : prev.log[k].ret # "False" )
           => AssetTransfers = <<>> /\ i = prev.i

\* C5 witness: both runs are done, the first downloaded the catalog and at
\* least one image, the second downloaded the catalog again, no image, and
\* reports the same non-zero count
C5_Witness ==
    /\ run = "second"
    /\ pc = "done"
    /\ prev.pc = "done"
    /\ prev.db = emojis_db
    /\ Len(prev.transfers) >= 2
    /\ prev.i >= 1
    /\ i = prev.i
    /\ Len(transfers) = 1
    /\ AssetTransfers = <<>>

(***************************************************************************)
(* Properties of the acquirers and of the catalog retriever.               *)
(***************************************************************************)
\* the value of i before iteration k of the current run
CountBefore(k) == IF k = 1 THEN 0 ELSE log[k - 1].count

\* C6: when the copy of the local-copy acquirer fails because the source
\* image is missing, the acquirer reports failure, the entry is not
\* counted and the run goes on.
C6_CopyFailureReported ==
    \A k \in 1..Len(log) :
        (\E t \in Range(log[k].gets) :
            t.op = "COPY" /\ ~t.ok /\ ~Exists(world, t.src)) =>
            /\ log[k].ret = "False"
            /\ log[k].count = CountBefore(k)
            /\ pc # "crashed"

\* the catalog could not be read: the file of the local installation is
\* missing or is not JSON, or the download failed or brought no JSON
CatalogUnreadable ==
    \/ /\ gemoji_local_path # NoPath
       /\ Known(world, LocalDbFile)
       /\ LoadFailed(world, LocalDbFile)
    \/ /\ gemoji_local_path = NoPath
       /\ \E t \in Range(transfers) :
             /\ t.src = EmojiDbUrl
             /\ ~t.ok \/ ~world.remote[EmojiDbUrl].body.valid

\* C7: when the catalog cannot be read, on the local or on the remote
\* path, the catalog is empty and the run completes with zero successes.
C7_UnreadableCatalogCompletes ==
    (pc \notin {"start", "localized"} /\ CatalogUnreadable) =>
        /\ pc # "crashed"
        /\ emojis_db = <<>>
        /\ pc = "done" => i = 0

\* the routing of iteration k: an entry with a glyph to the remote acquirer
\* and the 'unicode' subdirectory; an entry without one left alone in
\* true-emoji-only mode, otherwise copied when a local installation was
\* found and downloaded when not
RoutedByKindAndSource(k) ==
        LET r == log[k]
            emoji == emojis_db[r.entry]
        IN
               IF HasEmoji(emoji)
               THEN /\ r.via = "download_file"
                    /\ r.file = args.path \o <<"unicode", Last(r.file)>>
                    /\ \A t \in Range(r.gets) :
                          /\ t.op = "GET"
                          /\ t.src = AssetsBase \o <<"unicode", Last(t.src)>>
               ELSE IF args.only_real_emojis
               THEN /\ r.via = "none" /\ r.gets = <<>> /\ r.ret = "none"
                    /\ r.count = CountBefore(k)
               ELSE /\ r.file = args.path \o <<r.name \o ".png">>
                    /\ IF world.gem = "found"
                       THEN /\ r.via = "copyfile"
                            /\ \A t \in Range(r.gets) :
                                  /\ t.op = "COPY"
                                  /\ t.src = GemRoot \o <<"images", r.name \o ".png">>
                       ELSE /\ r.via = "download_file"
                            /\ \A t \in Range(r.gets) :
                                  /\ t.op = "GET"
                                  /\ t.src = AssetsBase \o <<r.name \o ".png">>

\* C8: every entry the loop does not pass over is routed by its kind and
\* by the outcome of the local-installation query: an entry with a glyph
\* is acquired remotely into 'unicode', local installation or not; an
\* entry without one is skipped in true-emoji-only mode, and otherwise is
\* copied if and only if a local installation is known, downloaded if not.
C8_DispatchByKindAndSource ==
    \A k \in 1..Len(log) :
        log[k].branch # "continue" => RoutedByKindAndSource(k)

\* the same routing, for the entries matched by a list of names
C8_RoutedWhenListed ==
    \A k \in 1..Len(log) :
        (log[k].branch # "continue" /\ log[k].before # <<>>) =>
            RoutedByKindAndSource(k)

\* C8 witness: with a local installation, one run downloaded a true emoji
\* into 'unicode' and copied a fake image from the installation
C8_Witness ==
    /\ world.gem = "found"
    /\ pc = "done"
    /\ \E k \in 1..Len(log) :
          /\ HasEmoji(emojis_db[log[k].entry])
          /\ log[k].via = "download_file"
          /\ Len(log[k].gets) = 1 /\ log[k].gets[1].ok
    /\ \E k \in 1..Len(log) :
          /\ ~HasEmoji(emojis_db[log[k].entry])
          /\ log[k].via = "copyfile"
          /\ Len(log[k].gets) = 1 /\ log[k].gets[1].ok

\* the target of the iteration just made held a file before it
HeldFile(w, wAfter, p) ==
    \/ Exists(w, p)
    \/ ~Known(w, p) /\ wAfter.files[p].kind = "old"

\* C9: an acquirer that finds its target on disk, force-mode off, reports
\* success, transfers nothing and leaves the file as it was.
C9_ExistingTargetSkipped ==
    [][ (pc = "iterating" /\ Len(log') = Len(log) + 1) =>
          LET r == Last(log')
          IN  (~args.force /\ r.via # "none" /\ HeldFile(world, world', r.file)) =>
                 /\ r.ret = "True"
                 /\ r.gets = <<>>
                 /\ transfers' = transfers
                 /\ i' = i + 1
                 /\ world'.files[r.file] =
                       (IF Known(world, r.file) THEN world.files[r.file]
                        ELSE OldFile(CorruptDoc))
      ]_vars

\* C9 witness: force-mode off, the remote acquirer and the local-copy
\* acquirer each found its target on disk and skipped it
C9_Witness ==
    /\ ~args.force
    /\ pc = "done"
    /\ \E k \in 1..Len(log) :
          /\ log[k].via = "download_file"
          /\ log[k].ret = "True" /\ log[k].gets = <<>>
          /\ world.files[log[k].file].kind = "old"
    /\ \E k \in 1..Len(log) :
          /\ log[k].via = "copyfile"
          /\ log[k].ret = "True" /\ log[k].gets = <<>>
          /\ world.files[log[k].file].kind = "old"

(***************************************************************************)
(* Properties of the normalizer (NormSpec).                                *)
(***************************************************************************)
EndsWithSelector(u) == \E vs \in VariationSelectors : EndsWith(u, vs)

\* C10, as claimed: normalizing a normalized identifier changes nothing.
C10_NormalizerIdempotent ==
    Len(ident) = 3 => ident[3] = ident[2]

\* C10, amended: normalizing a normalized identifier changes nothing,
\* except when the normalized identifier still ends with a variation
\* selector (the raw one ended with two, and one is stripped each time).
C10_IdempotentUnlessSelectorLeft ==
    Len(ident) = 3 => ((ident[3] = ident[2]) <=> ~EndsWithSelector(ident[2]))

\* C10 witness: a shrug sequence ending with a selector was normalized (the
\* selector stripped, the joiner replaced) and normalized again, unchanged
C10_Witness ==
    /\ Len(ident) = 3
    /\ EndsWithSelector(ident[1])
    /\ StartsWith(ident[2], ShrugPrefix \o <<"-">>)
    /\ ident[2] # ident[1]
    /\ ident[3] = ident[2]

(***************************************************************************)
(* Properties of the catalog retriever and of download_file.               *)
(***************************************************************************)
\* C11: without a local installation, whatever the download and the load
\* gave, retrieve_emoji_db returns a catalog (the run enters the loop) and
\* no emoji.json is left in the working directory.
C11_TempCatalogAlwaysRemoved ==
    (gemoji_local_path = NoPath /\ pc \notin {"start", "localized"}) =>
        /\ Looping
        /\ ~Exists(world, TempDbFile)

\* the step made a GET that the server answered with another status than 200
RefusedGet(t) == t.op = "GET" /\ ~t.ok

\* C12: a download answered with a status other than 200 returns False
\* (the entry is not counted) and writes nothing: a target that did not
\* exist still does not, and one that existed (force-mode) is as it was.
C12_RefusedDownloadWritesNothing ==
    [][ (Len(transfers') = Len(transfers) + 1 /\ RefusedGet(Last(transfers'))) =>
          LET t == Last(transfers')
          IN  /\ IF Known(world, t.dst)
                 THEN world'.files[t.dst] = world.files[t.dst]
                 ELSE /\ world'.files[t.dst] \in {NoFile, OldFile(CorruptDoc)}
                      /\ world'.files[t.dst] # NoFile => args.force
              /\ \A p \in DOMAIN world.files : world'.files[p] = world.files[p]
              /\ pc = "iterating" =>
                    /\ Last(log').ret = "False"
                    /\ Last(log').file = t.dst
                    /\ i' = i
      ]_vars

\* C12 witness: under force-mode an image that was on disk was asked for
\* again, the server refused, and the file is still the old one
C12_Witness ==
    /\ args.force
    /\ \E k \in 1..Len(log) :
          /\ log[k].via = "download_file"
          /\ log[k].ret = "False"
          /\ Len(log[k].gets) = 1 /\ RefusedGet(log[k].gets[1])
          /\ world.files[log[k].file] = OldFile(CorruptDoc)

(***************************************************************************)
(* Properties of the loop: counter, failures, target directory.            *)
(***************************************************************************)
\* the iterations of this run whose acquirer returned True
Succeeded == {k \in 1..Len(log) : log[k].ret = "True"}

\* C13: the counter is the number of examined entries whose acquirer
\* returned success: it moves by one on such an entry and by nothing on an
\* entry passed over, skipped in true-emoji-only mode, or failed.
C13_CounterCountsSuccesses ==
    /\ i = Cardinality(Succeeded)
    /\ i <= Len(log)
    /\ \A k \in 1..Len(log) :
          log[k].count = CountBefore(k) + (IF k \in Succeeded THEN 1 ELSE 0)

\* C13 witness: a finished run of two entries, the first failed and the
\* second acquired, reporting one success
C13_Witness ==
    /\ pc = "done"
    /\ Len(log) = 2
    /\ log[1].ret = "False"
    /\ log[2].ret = "True"
    /\ i = 1

\* C14: a failed fetch or copy for an entry does not abort the run: the
\* loop goes on to the next entry.
C14_FailureNeverAborts ==
    \A k \in 1..Len(log) :
        (\E t \in Range(log[k].gets) : ~t.ok) =>
            /\ pc # "crashed"
            /\ idx > log[k].entry

\* the source of transfer t can be had: the server answers 200, or the
\* image is in the local installation
SourceAvailable(t) ==
    IF t.op = "GET" THEN world.remote[t.src].status = 200
    ELSE Exists(world, t.src)

\* C15: whichever acquirer makes the transfer, when the source can be had
\* the target directory is there afterwards and the asset is written in it.
C15_TargetDirectoryCreated ==
    \A k \in 1..Len(log) :
        \A t \in Range(log[k].gets) :
            SourceAvailable(t) =>
                /\ Front(t.dst) \in world.dirs
                /\ Exists(world, t.dst)
                /\ world.files[t.dst].kind = "fetched"

(***************************************************************************)
(* Properties of the substitutions, one by one (RuleSpec).                 *)
(***************************************************************************)
\* U+1F1E6 and U+1F1F3, the regional indicators among CodePoints
RegionalIndicators == {127462, 127475}

\* an identifier of the shape 1f1XX1f1YY
FlagShape(u) ==
    /\ Len(u) = 10
    /\ <<u[1], u[2], u[3]>> = FlagPrefix
    /\ <<u[6], u[7], u[8]>> = FlagPrefix

\* the number of hyphens in u
Hyphens(u) == Cardinality({k \in 1..Len(u) : u[k] = "-"})

\* C16: a glyph of exactly two regional indicators normalizes to its two
\* code points with one hyphen between them, and line 161 puts a hyphen
\* (one, after the fifth character) in the identifiers of the shape
\* 1f1XX1f1YY and in no other.
C16_FlagRuleHyphenatesFlagsOnly ==
    Len(ident) = 4 =>
        LET u == ident[3]
            v == ident[4]
        IN  /\ glyph \in [1..2 -> RegionalIndicators] =>
                  v = Hex(glyph[1]) \o <<"-">> \o Hex(glyph[2])
            /\ IF FlagShape(u)
               THEN /\ Len(v) = 11
                    /\ v[6] = "-"
                    /\ SubSeq(v, 1, 5) = SubSeq(u, 1, 5)
                    /\ SubSeq(v, 7, 11) = SubSeq(u, 6, 10)
                    /\ Hyphens(v) = Hyphens(u) + 1
               ELSE v = u

\* C16 witness: U+1F1E6 U+1F1F3 has gone through line 161
C16_Witness ==
    /\ Len(ident) = 4
    /\ glyph = <<127462, 127475>>
    /\ Str(ident[1]) = "1f1e61f1f3"
    /\ Str(ident[4]) = "1f1e6-1f1f3"

\* C17: line 158 replaces the joiner that follows a leading 1f937 by a
\* hyphen and keeps what follows it as it is; an identifier that does not
\* begin with 1f937200d is left as it is.
C17_ShrugRuleReplacesJoiner ==
    Len(ident) >= 3 =>
        LET u == ident[2]
            v == ident[3]
        IN  IF StartsWith(u, ShrugPrefix \o Joiner)
            THEN /\ Len(v) = Len(u) - 3
                 /\ SubSeq(v, 1, 5) = ShrugPrefix
                 /\ v[6] = "-"
                 /\ SubSeq(v, 7, Len(v)) = SubSeq(u, 10, Len(u))
            ELSE v = u

\* C17 witness: U+1F937 U+200D U+2642 has gone through line 158
C17_Witness ==
    /\ Len(ident) >= 3
    /\ glyph = <<129335, 8205, 9794>>
    /\ Str(ident[2]) = "1f937200d2642"
    /\ Str(ident[3]) = "1f937-2642"

\* C18: line 155 takes the last four characters off an identifier that
\* ends with fe0e or fe0f, and only those: everything before them stays,
\* selectors included, and an identifier that ends otherwise is left as it
\* is; the later lines take no selector away.
C18_StripsOneTrailingSelector ==
    /\ Len(ident) >= 2 =>
          LET u == ident[1]
              v == ident[2]
          IN  IF EndsWithSelector(u)
              THEN v = SubSeq(u, 1, Len(u) - 4)
              ELSE v = u
    /\ Len(ident) = 4 =>
          SelectSeq(ident[4], LAMBDA c : c # "-") =
             SelectSeq(IF StartsWith(ident[2], ShrugPrefix \o Joiner)
                       THEN ShrugPrefix \o SubSeq(ident[2], 10, Len(ident[2]))
                       ELSE ident[2],
                       LAMBDA c : c # "-")

\* C18 witness: a glyph with a selector in the middle and two at the end
\* has lost the last one and kept the other two
C18_Witness ==
    /\ Len(ident) = 4
    /\ glyph = <<65039, 65038, 65039>>
    /\ Str(ident[4]) = "fe0ffe0e"

(***************************************************************************)
(* Properties of handle_emoji_extraction and of true-emoji-only mode.      *)
(***************************************************************************)
\* the target of a true emoji: <path>/unicode/<identifier>.png, or
\* <path>/unicode/<first alias>.png when real names are asked for
EmojiTarget(emoji) ==
    args.path \o <<"unicode",
                   (IF args.real_names THEN emoji.aliases[1] ELSE Unicode(emoji))
                       \o ".png">>

\* C19: a true emoji is asked for at 'unicode/<normalized identifier>' and
\* saved in the 'unicode' subdirectory, under the identifier or, with real
\* names, under the first alias; the file whose existence decides the skip
\* is that same target.
C19_EmojiUrlAndTarget ==
    \A k \in 1..Len(log) :
        LET r == log[k]
            emoji == emojis_db[r.entry]
        IN  (r.via = "download_file" /\ HasEmoji(emoji)) =>
               /\ r.file = EmojiTarget(emoji)
               /\ Front(r.file) = args.path \o <<"unicode">>
               /\ Len(r.gets) <= 1
               /\ \A t \in Range(r.gets) :
                     /\ t.src = AssetsBase \o <<"unicode", Unicode(emoji) \o ".png">>
                     /\ t.dst = EmojiTarget(emoji)
                     /\ t.ok => world.files[EmojiTarget(emoji)] =
                                   Fetched(t.src, CorruptDoc)
               /\ r.gets = <<>> =>
                     ~args.force /\ Exists(world, EmojiTarget(emoji))
               /\ (r.gets # <<>> /\ ~args.force) =>
                     world.files[EmojiTarget(emoji)].kind # "old"

\* C19 witness: with real names, 'bow' was requested and the emoji was
\* fetched from unicode/1f647200d2642.png into unicode/bowing_man.png
C19_Witness ==
    /\ args.real_names
    /\ args.list = <<"bow">>
    /\ pc = "done"
    /\ \E k \in 1..Len(log) :
          /\ log[k].ret = "True"
          /\ log[k].file = <<".", "emoji", "unicode", "bowing_man.png">>
          /\ Len(log[k].gets) = 1
          /\ Last(log[k].gets[1].src) = "1f647200d2642.png"
          /\ log[k].gets[1].ok

\* iteration k met a fake image matched by the list, in true-emoji-only mode
FakeMatchedOnlyEmojis(k) ==
    /\ log[k].branch = "none"
    /\ log[k].before # <<>>

\* C20: in true-emoji-only mode a fake image matched by the list is not
\* acquired and not counted, yet its matched names leave the list: none of
\* them is among the names left when the run is done, and the loop stops
\* if the list is emptied.
C20_FakeImageRemovedNotAcquired ==
    \A k \in 1..Len(log) :
        FakeMatchedOnlyEmojis(k) =>
            /\ log[k].via = "none" /\ log[k].gets = <<>>
            /\ log[k].count = CountBefore(k)
            /\ log[k].matched # {}
            /\ Range(log[k].after) \cap log[k].matched = {}
            /\ pc = "done" => Range(subset) \cap log[k].matched = {}
            /\ log[k].after = <<>> => k = Len(log) /\ pc \in {"after_loop", "done"}

\* the same, a name given twice leaving the list once
C20_FakeImageRemovedOnce ==
    \A k \in 1..Len(log) :
        FakeMatchedOnlyEmojis(k) =>
            /\ log[k].via = "none" /\ log[k].gets = <<>>
            /\ log[k].count = CountBefore(k)
            /\ log[k].matched # {}
            /\ LessExactly(log[k].after, log[k].before, log[k].matched)
            /\ log[k].after = <<>> => k = Len(log) /\ pc \in {"after_loop", "done"}

(***************************************************************************)
(* The catalog retrieved without a local installation.                     *)
(***************************************************************************)
\* the catalog parsed from what the server answers at EMOJI_DB_URL, empty
\* when it answers another status than 200 or serves no JSON
ServedCatalog ==
    LET answer == world.remote[EmojiDbUrl]
    IN  IF answer.status = 200 /\ answer.body.valid THEN answer.body.db ELSE <<>>

\* C21: without a local installation, once retrieve_emoji_db has returned,
\* the catalog document was fetched from EMOJI_DB_URL during the call and
\* the catalog in use is the one parsed from it, whatever the working
\* directory held before the run.
C21_CatalogIsTheOneFetched ==
    (gemoji_local_path = NoPath /\ pc \notin {"start", "localized"} /\ Looping) =>
        /\ transfers # <<>>
        /\ transfers[1].op = "GET"
        /\ transfers[1].src = EmojiDbUrl
        /\ transfers[1].dst = TempDbFile
        /\ emojis_db = ServedCatalog

====
